---- MODULE Spec2Model ----
(***************************************************************************)
(* Library catalog service (src/src/main.py, src/src/database.py).         *)
(*                                                                         *)
(* The store is one SQLite file.  `store` is its committed content,        *)
(* `schema` the tables and indexes it holds.  Every request handler opens  *)
(* its own connection through instrumented_connect, runs its statements    *)
(* and leaves the `with` block, whose `finally` closes the connection.     *)
(* A connection that has executed an INSERT or UPDATE is inside an         *)
(* implicit transaction (Python's sqlite3 issues BEGIN before the first    *)
(* data-modifying statement); its uncommitted rows live in conn[w].view    *)
(* and it holds the file's write lock until the transaction ends.          *)
(***************************************************************************)
EXTENDS Integers, Sequences, FiniteSets, TLC

VARIABLES
    schema,     \* names of the tables and indexes present in the store file
    store,      \* committed rows: [books, borrowers, borrowed]
    store0,     \* the committed rows when the server started
    lock,       \* worker holding SQLite's RESERVED (write) lock, or NoWorker
    active,     \* db.connections.active, the up/down counter
    initRuns,   \* number of init_db calls made so far
    initErr,    \* TRUE once init_db has printed "Database error"
    pc,         \* per worker: position inside the request it is handling
    req,        \* per worker: the request being handled
    conn,       \* per worker: its connection [open, fk, tx, view]
    resp,       \* per worker: the response sent [status, list, id]
    exc,        \* per worker: exception that left do_GET / do_POST, or NoExc
    log,        \* completed exchanges, oldest first: [req, status, list, id, exc]
    overlap     \* per worker: TRUE when its request ran while another was in flight

vars == <<schema, store, store0, lock, active, initRuns, initErr, pc, req, conn, resp, exc, log, overlap>>

----------------------------------------------------------------------------
(* Bounds of the model.                                                    *)

\* Books in the store when the server starts.
MaxBooks0 == 1
\* Borrowers in the store when the server starts.
MaxBorrowers0 == 2
\* Requests recorded in the log (requests served one after another).
MaxLog == 3
\* Calls of init_db.
MaxInitRuns == 2

Workers == {"w1", "w2"}
NoWorker == "none"
NoExc == "none"

----------------------------------------------------------------------------
(* JSON values of a request body.  t is the Python type after json.loads,  *)
(* n the number of an int / bool / all-digit string, s the text of a str.  *)
(* "digits" is a str made of ASCII decimal digits only (str.isdigit() is   *)
(* true and SQLite's INTEGER affinity converts it); n is its value.        *)

JNull == [t |-> "null", n |-> 0, s |-> ""]
JInt(k) == [t |-> "int", n |-> k, s |-> ""]
JStr(x) == [t |-> "str", n |-> 0, s |-> x]
JDigits(k) == [t |-> "digits", n |-> k, s |-> ""]
JBool(b) == [t |-> "bool", n |-> IF b THEN 1 ELSE 0, s |-> ""]
JFloat(k) == [t |-> "float", n |-> k, s |-> ""]

\* A presence test that takes only null (a missing key) for absent.
TruthyStrict(v) == v.t # "null"

\* Python truthiness: `if body.get('title')`, `if not borrower_id`.
Truthy(v) ==
    CASE v.t = "null" -> FALSE
      [] v.t = "int" -> v.n # 0
      [] v.t = "bool" -> v.n # 0
      [] v.t = "float" -> v.n # 0
      [] v.t = "str" -> v.s # ""
      [] v.t = "digits" -> TRUE
      [] OTHER -> TRUE

\* dict.get(key): the value, or None when the key is absent.
Get(body, k) == IF k \in DOMAIN body THEN body[k] ELSE JNull

\* isinstance(x, int) or x.isdigit(), the shape test of handle_borrow_book.
IsIntShaped(v) == v.t \in {"int", "bool", "digits"}

\* SQLite's INTEGER column affinity applied to a bound parameter: an int and
\* a text that looks like an integer become that integer; other text stays.
Affinity(v) == IF v.t \in {"int", "bool", "digits"} THEN JInt(v.n) ELSE v

----------------------------------------------------------------------------
(* Paths are sequences of characters.                                      *)

BOOKS_PATH == <<"/", "b", "o", "o", "k", "s">>
BORROWERS_PATH == <<"/", "b", "o", "r", "r", "o", "w", "e", "r", "s">>
BORROWED_PATH == <<"/", "b", "o", "r", "r", "o", "w", "e", "d", "-", "b", "o", "o", "k", "s">>

DigitChars == <<"0", "1", "2", "3", "4", "5", "6", "7", "8", "9">>

\* str.startswith
StartsWith(s, pre) == Len(s) >= Len(pre) /\ SubSeq(s, 1, Len(pre)) = pre

\* Index of the last "/" of s, 0 when there is none.
LastSlash(s) ==
    LET at == {i \in 1..Len(s) : s[i] = "/"}
    IN IF at = {} THEN 0 ELSE CHOOSE i \in at : \A j \in at : j <= i

\* path.split('/')[-1]
LastSegment(s) == SubSeq(s, LastSlash(s) + 1, Len(s))

\* A digit test that the empty segment passes.
IsDigitLax(seg) == \A i \in 1..Len(seg) : \E d \in 1..10 : DigitChars[d] = seg[i]

\* str.isdigit() on a path segment (ASCII paths): non-empty, digits only.
IsDigit(seg) ==
    /\ Len(seg) > 0
    /\ \A i \in 1..Len(seg) : \E d \in 1..10 : DigitChars[d] = seg[i]

DigitValue(c) == (CHOOSE d \in 1..10 : DigitChars[d] = c) - 1

\* The integer an all-digit segment denotes (SQLite converts the bound text
\* to an integer when it is compared with the INTEGER PRIMARY KEY).
RECURSIVE SegValue(_)
SegValue(seg) ==
    IF Len(seg) = 0 THEN 0
    ELSE 10 * SegValue(SubSeq(seg, 1, Len(seg) - 1)) + DigitValue(seg[Len(seg)])

\* urlparse(self.path).path for a path without scheme or authority: the
\* text before the first "?" or "#", and of that the text before the first
\* ";" that follows the last "/" (the params of the last segment).
CutBefore(s, at) ==
    IF at = {} THEN s
    ELSE SubSeq(s, 1, (CHOOSE i \in at : \A j \in at : i <= j) - 1)

UrlPath(s) ==
    LET p == CutBefore(s, {i \in 1..Len(s) : s[i] \in {"?", "#"}})
    IN CutBefore(p, {i \in 1..Len(p) : p[i] = ";" /\ i > LastSlash(p)})

----------------------------------------------------------------------------
(* The store: schema and rows.                                             *)

FullSchema ==
    {"books", "borrowers", "borrowed_books",
     "idx_borrowed_books_book_id", "idx_borrowed_books_borrower_id"}

EmptyDb == [books |-> {}, borrowers |-> {}, borrowed |-> {}]

Max(S) == CHOOSE x \in S : \A y \in S : y <= x

\* The rowid SQLite gives a row inserted without an id into a table declared
\* `id INTEGER PRIMARY KEY`: one more than the largest rowid in the table.
NextRowId(rows) == IF rows = {} THEN 1 ELSE Max({r.id : r \in rows}) + 1

\* CREATE TABLE / CREATE INDEX without IF NOT EXISTS: [sch, err]; an object
\* that is already there is an error ("table books already exists").
CreatePlain(sch, name) ==
    IF name \in sch THEN [sch |-> sch, err |-> TRUE]
    ELSE [sch |-> sch \cup {name}, err |-> FALSE]

\* CREATE ... IF NOT EXISTS: nothing happens when the object is there.
CreateIfNotExists(sch, name) == [sch |-> sch \cup {name}, err |-> FALSE]

\* One statement of init_db: every CREATE of database.py says IF NOT EXISTS.
InitStatement(sch, name) == CreateIfNotExists(sch, name)

\* The objects init_db creates, in the order of its statements.
InitObjects ==
    <<"books", "borrowers", "borrowed_books",
      "idx_borrowed_books_book_id", "idx_borrowed_books_borrower_id">>

\* init_db's statements run in order; the first sqlite3.Error ends the `try`
\* block (the except clause prints it), so the later statements do not run.
RECURSIVE RunInit(_, _)
RunInit(sch, i) ==
    IF i > Len(InitObjects) THEN [sch |-> sch, err |-> FALSE]
    ELSE LET r == InitStatement(sch, InitObjects[i])
         IN IF r.err THEN r ELSE RunInit(r.sch, i + 1)

\* INSERT OR REPLACE with the id of the first row: a row already there with
\* that id is deleted and its place taken by the new one.
InsertBookReplacing(db, title, author) ==
    LET new == [id |-> 1, title |-> title, author |-> author, is_borrowed |-> 0]
    IN [err |-> NoExc, id |-> 1,
        db |-> [db EXCEPT !.books = {b \in @ : b.id # 1} \cup {new}]]

\* INSERT INTO books (title, author, is_borrowed) VALUES (?, ?, False)
InsertBook(db, title, author) ==
    LET id == NextRowId(db.books)
        new == [id |-> id, title |-> title, author |-> author, is_borrowed |-> 0]
    IN [err |-> NoExc, id |-> id, db |-> [db EXCEPT !.books = @ \cup {new}]]

\* The UNIQUE constraint on borrowers.email.
EmailTaken(db, email) == \E b \in db.borrowers : b.email = email

\* The INSERT on a borrowers table whose email column is not UNIQUE.
InsertBorrowerNoUnique(db, name, email) ==
    LET id == NextRowId(db.borrowers)
        new == [id |-> id, name |-> name, email |-> email]
    IN [err |-> NoExc, id |-> id, db |-> [db EXCEPT !.borrowers = @ \cup {new}]]

\* INSERT INTO borrowers (name, email) VALUES (?, ?)
InsertBorrower(db, name, email) ==
    LET id == NextRowId(db.borrowers)
        new == [id |-> id, name |-> name, email |-> email]
    IN IF EmailTaken(db, email)
       THEN [err |-> "IntegrityError: UNIQUE constraint failed", id |-> 0, db |-> db]
       ELSE [err |-> NoExc, id |-> id, db |-> [db EXCEPT !.borrowers = @ \cup {new}]]

\* The parent rows the two FOREIGN KEY clauses of borrowed_books ask for.
HasBook(db, v) == \E b \in db.books : JInt(b.id) = v
HasBorrower(db, v) == \E b \in db.borrowers : JInt(b.id) = v

\* INSERT INTO borrowed_books (borrower_id, book_id) VALUES (?, ?) on a
\* connection whose foreign_keys pragma is fk.  borrow_date is not in the
\* column list and has no default: it is NULL.
InsertBorrowed(db, fk, borrower_id, book_id) ==
    LET bid == Affinity(book_id)
        rid == Affinity(borrower_id)
        id == NextRowId(db.borrowed)
        new == [id |-> id, book_id |-> bid, borrower_id |-> rid, borrow_date |-> JNull]
    IN IF fk /\ ~(HasBook(db, bid) /\ HasBorrower(db, rid))
       THEN [err |-> "IntegrityError: FOREIGN KEY constraint failed", id |-> 0, db |-> db]
       ELSE [err |-> NoExc, id |-> id, db |-> [db EXCEPT !.borrowed = @ \cup {new}]]

\* UPDATE books SET is_borrowed = True WHERE id = ?
UpdateIsBorrowed(db, book_id) ==
    [db EXCEPT !.books =
        {IF JInt(b.id) = Affinity(book_id) THEN [b EXCEPT !.is_borrowed = 1] ELSE b : b \in @}]

\* A SELECT on books without its WHERE clause.
SelectAnyBook(db, book_id) == db.books

\* SELECT is_borrowed FROM books WHERE id = ?  (fetchone: the rows found)
SelectIsBorrowed(db, book_id) == {b \in db.books : JInt(b.id) = Affinity(book_id)}

\* SELECT * FROM borrowers WHERE id = ?  with the path segment as parameter
SelectBorrower(db, seg) == {b \in db.borrowers : b.id = SegValue(seg)}

\* SELECT * FROM books, each row as the dict handle_list_books builds.
SelectBooks(db) ==
    {[id |-> b.id, title |-> b.title, author |-> b.author,
      is_borrowed |-> (b.is_borrowed # 0)] : b \in db.books}

----------------------------------------------------------------------------
(* Stores the server can be started on: the rows of a file written under   *)
(* the schema of init_db (primary keys 1..n, unique emails) in which every *)
(* borrowed book has its one record and every record names existing rows.  *)

Titles == <<"T1", "T2", "T3">>
Authors == <<"A1", "A2", "A3">>
Names == <<"N1", "N2", "N3", "N4">>
Emails == <<"e1", "e2", "e3", "e4">>

BookRow(i, flag) ==
    [id |-> i, title |-> JStr(Titles[i]), author |-> JStr(Authors[i]), is_borrowed |-> flag]
BorrowerRow(i) == [id |-> i, name |-> JStr(Names[i]), email |-> JStr(Emails[i])]

\* by[i] = 0: book i is available; by[i] = r: book i is borrowed by borrower r.
StoreOf(nb, nr, by) ==
    LET out == {i \in 1..nb : by[i] # 0}
        rank(i) == Cardinality({j \in out : j <= i})
    IN [books |-> {BookRow(i, IF by[i] = 0 THEN 0 ELSE 1) : i \in 1..nb},
        borrowers |-> {BorrowerRow(i) : i \in 1..nr},
        borrowed |-> {[id |-> rank(i), book_id |-> JInt(i), borrower_id |-> JInt(by[i]),
                       borrow_date |-> JNull] : i \in out}]

InitStores ==
    {StoreOf(nb, nr, by) : <<nb, nr, by>> \in
        {t \in (0..MaxBooks0) \X (0..MaxBorrowers0) \X [1..MaxBooks0 -> 0..MaxBorrowers0] :
            /\ \A i \in 1..MaxBooks0 : t[3][i] <= t[2]
            /\ \A i \in 1..MaxBooks0 : i > t[1] => t[3][i] = 0}}

----------------------------------------------------------------------------
(* Requests and routing.                                                   *)

MAX_CONTENT_LENGTH == 1048576

INVALID_JSON_ERROR == "Invalid JSON format"
PATH_NOT_FOUND_ERROR == "Path not found"

EmptyBody == [k \in {} |-> JNull]

\* A request: clen is the Content-Length header (0 when absent), json says
\* what json.loads makes of the body read ("object", "array", "scalar",
\* "invalid"), body is the parsed object.
Post(path, clen, json, body) ==
    [method |-> "POST", path |-> path, clen |-> clen, json |-> json, body |-> body]
GetReq(path) ==
    [method |-> "GET", path |-> path, clen |-> 0, json |-> "none", body |-> EmptyBody]
NoReq == [method |-> "NONE", path |-> <<>>, clen |-> 0, json |-> "none", body |-> EmptyBody]

\* What routing and validation decide before any store connection is opened:
\* send an error, raise, or enter the store part of handler h.
SendError(status, msg) == [kind |-> "error", status |-> status, msg |-> msg, h |-> "none"]
Raise(e) == [kind |-> "raise", status |-> 0, msg |-> e, h |-> "none"]
Enter(h) == [kind |-> "db", status |-> 0, msg |-> "", h |-> h]

\* handle_add_book before its connection: `if not title or not author`.
AddBookEntry(body) ==
    IF ~Truthy(Get(body, "title")) \/ ~Truthy(Get(body, "author"))
    THEN SendError(400, "Title and author are required")
    ELSE Enter("add_book")

\* handle_create_borrower before its connection.
CreateBorrowerEntry(body) ==
    IF ~Truthy(Get(body, "name")) \/ ~Truthy(Get(body, "email"))
    THEN SendError(400, "Name and email are required")
    ELSE Enter("create_borrower")

\* A shape test that lets every str through.
ShapeTestLax(v) ==
    CASE v.t \in {"int", "bool", "digits", "str"} -> "ok"
      [] OTHER -> "raise"

\* `not isinstance(x, int) and not x.isdigit()`: a str answers isdigit(); a
\* float, list or dict has no isdigit and the call raises AttributeError.
ShapeTest(v) ==
    CASE v.t \in {"int", "bool", "digits"} -> "ok"
      [] v.t = "str" -> "bad"
      [] OTHER -> "raise"

\* Argument checks that test the shape of book_id before that of borrower_id.
BorrowBookEntryBookFirst(body) ==
    LET borrower_id == Get(body, "borrower_id")
        book_id == Get(body, "book_id")
    IN IF ~Truthy(borrower_id) \/ ~Truthy(book_id)
       THEN SendError(400, "Borrower ID and Book ID are required")
       ELSE IF ShapeTest(book_id) = "raise" THEN Raise("AttributeError")
       ELSE IF ShapeTest(book_id) = "bad" THEN SendError(400, "Invalid book ID format")
       ELSE IF ShapeTest(borrower_id) = "raise" THEN Raise("AttributeError")
       ELSE IF ShapeTest(borrower_id) = "bad" THEN SendError(400, "Invalid borrower ID format")
       ELSE Enter("borrow_book")

\* handle_borrow_book before its connection.
BorrowBookEntry(body) ==
    LET borrower_id == Get(body, "borrower_id")
        book_id == Get(body, "book_id")
    IN IF ~Truthy(borrower_id) \/ ~Truthy(book_id)
       THEN SendError(400, "Borrower ID and Book ID are required")
       ELSE IF ShapeTest(borrower_id) = "raise" THEN Raise("AttributeError")
       ELSE IF ShapeTest(borrower_id) = "bad" THEN SendError(400, "Invalid borrower ID format")
       ELSE IF ShapeTest(book_id) = "raise" THEN Raise("AttributeError")
       ELSE IF ShapeTest(book_id) = "bad" THEN SendError(400, "Invalid book ID format")
       ELSE Enter("borrow_book")

\* The field test of do_POST for one endpoint with fields a and b.
PostFields(body, a, b, missingA, missingB, call) ==
    LET va == Truthy(Get(body, a))
        vb == Truthy(Get(body, b))
    IN IF va /\ vb THEN call
       ELSE IF ~va /\ vb THEN SendError(400, missingA)
       ELSE IF ~vb /\ va THEN SendError(400, missingB)
       ELSE SendError(400, "Invalid request body, no valid data provided")

\* A body check without the test on short lengths.
BodyCheckNoMinimum(r) ==
    IF r.clen > MAX_CONTENT_LENGTH THEN "large"
    ELSE IF r.json # "object" THEN "invalid"
    ELSE "ok"

\* A body check whose ceiling is exclusive.
BodyCheckOffByOne(r) ==
    IF r.clen <= 2 THEN "invalid"
    ELSE IF r.clen >= MAX_CONTENT_LENGTH THEN "large"
    ELSE IF r.json # "object" THEN "invalid"
    ELSE "ok"

\* The inner try of do_POST: Content-Length at most 2 raises ValueError, a
\* length above the maximum is answered 413, a body that does not parse or
\* is not a dict raises ValueError.
BodyCheck(r) ==
    IF r.clen <= 2 THEN "invalid"
    ELSE IF r.clen > MAX_CONTENT_LENGTH THEN "large"
    ELSE IF r.json # "object" THEN "invalid"
    ELSE "ok"

do_POST(r) ==
    IF BodyCheck(r) = "invalid" THEN SendError(400, INVALID_JSON_ERROR)
    ELSE IF BodyCheck(r) = "large" THEN SendError(413, "Request body too large")
    ELSE IF r.path = BOOKS_PATH
         THEN PostFields(r.body, "title", "author",
                         "Invalid request body, missing Title",
                         "Invalid request body, missing Author",
                         AddBookEntry(r.body))
    ELSE IF r.path = BORROWERS_PATH
         THEN PostFields(r.body, "name", "email",
                         "Invalid request body, missing Name",
                         "Invalid request body, missing Email",
                         CreateBorrowerEntry(r.body))
    ELSE IF r.path = BORROWED_PATH
         THEN PostFields(r.body, "borrower_id", "book_id",
                         "Invalid request body, missing Borrower ID",
                         "Invalid request body, missing Book ID",
                         BorrowBookEntry(r.body))
    ELSE SendError(400, PATH_NOT_FOUND_ERROR)

do_GET(r) ==
    LET path == UrlPath(r.path)
    IN IF path = BOOKS_PATH THEN Enter("list_books")
       ELSE IF path = BORROWERS_PATH THEN Enter("list_borrowers")
       ELSE IF StartsWith(path, BORROWERS_PATH)
            THEN IF ~IsDigit(LastSegment(path))
                 THEN SendError(400, "Invalid borrower ID format")
                 ELSE Enter("get_borrower")
       ELSE IF path = BORROWED_PATH THEN Enter("list_borrowed")
       ELSE IF StartsWith(path, BORROWED_PATH)
            THEN IF ~IsDigit(LastSegment(path))
                 THEN SendError(400, "Invalid borrower ID format")
                 ELSE Enter("borrowed_books")
       ELSE SendError(400, PATH_NOT_FOUND_ERROR)

\* BaseHTTPRequestHandler.handle_one_request calls do_<METHOD>.  LibraryHandler
\* defines do_GET and do_POST and nothing else: for any other method the base
\* class finds no such attribute and answers 501 "Unsupported method".
Dispatch(r) ==
    IF r.method = "GET" THEN do_GET(r)
    ELSE IF r.method = "POST" THEN do_POST(r)
    ELSE SendError(501, "Unsupported method")

\* The handler a worker is in, and the id segment its GET path carries.
Handler(w) == Dispatch(req[w]).h
PathId(w) == LastSegment(UrlPath(req[w].path))

----------------------------------------------------------------------------
(* Connections and responses.                                              *)

Closed == [open |-> FALSE, fk |-> FALSE, tx |-> FALSE, view |-> EmptyDb]

\* What the statements of worker w read: its own uncommitted rows once it is
\* inside a transaction, the committed rows otherwise.
Db(w) == IF conn[w].tx THEN conn[w].view ELSE store

\* ctype is the Content-Type of the body sent.
NoResp == [status |-> 0, msg |-> "", rows |-> {}, count |-> 0, ctype |-> ""]

\* send_json_response(status, data): data is a list of rows or one dict.
send_json_response(status, rows) ==
    [status |-> status, msg |-> "", rows |-> rows, count |-> Cardinality(rows),
     ctype |-> "application/json"]

\* send_error(code, message) hands both to BaseHTTPRequestHandler.send_error,
\* which puts the message in the status line and in an HTML page
\* (error_content_type "text/html;charset=utf-8").
send_error(code, message) ==
    [status |-> code, msg |-> message, rows |-> {}, count |-> 0, ctype |-> "text/html"]

\* One completed exchange, as the log keeps it.
Exchange(r, rs, e) == [req |-> r, resp |-> rs, exc |-> e]
Logged(keep, r, rs, e) == IF keep THEN Append(log, Exchange(r, rs, e)) ELSE log

\* A close that commits the open transaction first (what leaving
\* `with sqlite3.connect(...)` without the wrapper would do on success).
ConnCloseCommits(st, c, holds) == IF c.open /\ c.tx /\ holds THEN c.view ELSE st

\* The committed rows after the `finally` of instrumented_connect has run
\* conn.close() on connection c (holds: c owns the write lock).  close() does
\* not commit: an open transaction is rolled back.
ConnClose(st, c, holds) == st

\* The table each handler's first data-modifying statement writes.
InsertTable(h) ==
    CASE h = "add_book" -> "books"
      [] h = "create_borrower" -> "borrowers"
      [] h = "borrow_book" -> "borrowed_books"
      [] OTHER -> "none"

NoSuchTable == "OperationalError: no such table"
DatabaseLocked == "OperationalError: database is locked"
DiskError == "OperationalError: disk I/O error"

----------------------------------------------------------------------------
(* Actions.                                                                *)

\* do_GET / do_POST up to the handler's `with sqlite3.connect(...)`: routing,
\* body validation and the handler's own argument checks.  A request that is
\* answered or raises here never opens a connection.
Receive(w, r, keep) ==
    /\ pc[w] = "idle"
    /\ keep => Len(log) < MaxLog
    /\ LET d == Dispatch(r)
           busy == {v \in Workers \ {w} : pc[v] # "idle"}
           rs == IF d.kind = "error" THEN send_error(d.status, d.msg) ELSE NoResp
           e == IF d.kind = "raise" THEN d.msg ELSE NoExc
       IN /\ req' = [req EXCEPT ![w] = r]
          /\ resp' = [resp EXCEPT ![w] = rs]
          /\ exc' = [exc EXCEPT ![w] = e]
          /\ overlap' = [v \in Workers |->
                            IF v = w THEN busy # {}
                            ELSE IF v \in busy THEN TRUE ELSE overlap[v]]
          /\ IF d.kind = "db"
             THEN pc' = [pc EXCEPT ![w] = "connect"] /\ log' = log
             ELSE pc' = pc /\ log' = Logged(keep, r, rs, e)
    /\ UNCHANGED <<schema, store, store0, lock, active, initRuns, initErr, conn>>

\* instrumented_connect up to its yield: open, then count the connection.
Connect(w) ==
    /\ pc[w] = "connect"
    /\ conn' = [conn EXCEPT ![w] = [Closed EXCEPT !.open = TRUE]]
    /\ active' = active + 1
    /\ pc' = [pc EXCEPT ![w] = "pragma"]
    /\ UNCHANGED <<schema, store, store0, lock, initRuns, initErr, req, resp, exc, log, overlap>>

\* A connection left as sqlite3.connect returns it: foreign keys not enforced.
SkipForeignKeys(c) == c

\* The pragma every handler runs first on its connection.
EnableForeignKeys(c) == [c EXCEPT !.fk = TRUE]

\* conn.execute("PRAGMA foreign_keys = ON;")
Pragma(w) ==
    /\ pc[w] = "pragma"
    /\ conn' = [conn EXCEPT ![w] = EnableForeignKeys(@)]
    /\ pc' = [pc EXCEPT ![w] =
                IF Handler(w) \in {"add_book", "create_borrower"} THEN "insert" ELSE "select"]
    /\ UNCHANGED <<schema, store, store0, lock, active, initRuns, initErr, req, resp, exc, log, overlap>>

\* A read-only handler's SELECT and its response; the statement raises when
\* a table it names is missing.
ReadStep(w, h, tables, rs) ==
    /\ pc[w] = "select"
    /\ Handler(w) = h
    /\ IF tables \subseteq schema
       THEN resp' = [resp EXCEPT ![w] = rs] /\ exc' = exc
       ELSE resp' = resp /\ exc' = [exc EXCEPT ![w] = NoSuchTable]
    /\ pc' = [pc EXCEPT ![w] = "close"]
    /\ UNCHANGED <<schema, store, store0, lock, active, initRuns, initErr, req, conn, log, overlap>>

\* handle_list_books
ListBooks(w) ==
    ReadStep(w, "list_books", {"books"}, send_json_response(200, SelectBooks(Db(w))))

\* handle_list_borrowers
ListBorrowers(w) ==
    ReadStep(w, "list_borrowers", {"borrowers"}, send_json_response(200, Db(w).borrowers))

\* handle_get_borrower: a row found is sent with 200, none is answered 400.
GetBorrower(w) ==
    LET found == SelectBorrower(Db(w), PathId(w))
    IN ReadStep(w, "get_borrower", {"borrowers"},
                IF found # {} THEN send_json_response(200, found)
                ELSE send_error(400, "Borrower not found"))

\* The inner join of books and borrowed_books, one entry per record.
JoinBorrowed(db, recs) ==
    {[id |-> b.id, title |-> b.title, author |-> b.author, record |-> x.id] :
        <<b, x>> \in {t \in db.books \X recs : JInt(t[1].id) = t[2].book_id}}

\* handle_list_borrowed
ListBorrowed(w) ==
    ReadStep(w, "list_borrowed", {"books", "borrowed_books"},
             send_json_response(200, JoinBorrowed(Db(w), Db(w).borrowed)))

\* handle_borrowed_books: the join for one borrower, 404 when it is empty.
BorrowedBooks(w) ==
    LET mine == {x \in Db(w).borrowed : x.borrower_id = JInt(SegValue(PathId(w)))}
        books == JoinBorrowed(Db(w), mine)
    IN ReadStep(w, "borrowed_books", {"books", "borrowed_books"},
                IF books # {} THEN send_json_response(200, books)
                ELSE send_error(404, "No borrowed books found for this borrower"))

\* A data-modifying statement of worker w: st is [err, id, db].  Python's
\* sqlite3 begins a transaction before it; the statement takes the write lock
\* and keeps it, also when a constraint makes it fail, until the transaction
\* ends.  On success the worker moves to `next` with response rs.
WriteStep(w, st, next, rs) ==
    /\ lock \in {NoWorker, w}
    /\ lock' = w
    /\ conn' = [conn EXCEPT ![w] = [@ EXCEPT !.tx = TRUE, !.view = st.db]]
    /\ IF st.err = NoExc
       THEN /\ pc' = [pc EXCEPT ![w] = next]
            /\ resp' = [resp EXCEPT ![w] = rs]
            /\ exc' = exc
       ELSE /\ pc' = [pc EXCEPT ![w] = "close"]
            /\ resp' = resp
            /\ exc' = [exc EXCEPT ![w] = st.err]
    /\ UNCHANGED <<schema, store, store0, active, initRuns, initErr, req, log, overlap>>

\* A statement on a table that does not exist: preparing it raises, before
\* any transaction is begun.
MissingTable(w) ==
    /\ pc[w] = "insert"
    /\ InsertTable(Handler(w)) \notin schema
    /\ exc' = [exc EXCEPT ![w] = NoSuchTable]
    /\ pc' = [pc EXCEPT ![w] = "close"]
    /\ UNCHANGED <<schema, store, store0, lock, active, initRuns, initErr, req, conn, resp, log, overlap>>

\* The write lock is held by another connection for longer than the
\* connection's timeout (5 s by default): "database is locked".  The BEGIN
\* has been executed, the statement has written nothing.
Busy(w) ==
    /\ pc[w] = "insert"
    /\ InsertTable(Handler(w)) \in schema
    /\ lock \notin {NoWorker, w}
    /\ conn' = [conn EXCEPT ![w] = [@ EXCEPT !.tx = TRUE, !.view = store]]
    /\ exc' = [exc EXCEPT ![w] = DatabaseLocked]
    /\ pc' = [pc EXCEPT ![w] = "close"]
    /\ UNCHANGED <<schema, store, store0, lock, active, initRuns, initErr, req, resp, log, overlap>>

\* handle_add_book: INSERT, lastrowid, 201 with the book.  lastrowid is an
\* int after a successful INSERT, so the isinstance test never sends its 400.
AddBook(w) ==
    /\ pc[w] = "insert"
    /\ Handler(w) = "add_book"
    /\ "books" \in schema
    /\ LET title == Get(req[w].body, "title")
           author == Get(req[w].body, "author")
           st == InsertBook(Db(w), title, author)
           book == [id |-> st.id, title |-> title, author |-> author, is_borrowed |-> FALSE]
       IN WriteStep(w, st, "close", send_json_response(201, {book}))

\* handle_create_borrower: INSERT, lastrowid, 201 with the borrower.
CreateBorrower(w) ==
    /\ pc[w] = "insert"
    /\ Handler(w) = "create_borrower"
    /\ "borrowers" \in schema
    /\ LET name == Get(req[w].body, "name")
           email == Get(req[w].body, "email")
           st == InsertBorrower(Db(w), name, email)
           borrower == [id |-> st.id, name |-> name, email |-> email]
       IN WriteStep(w, st, "close", send_json_response(201, {borrower}))

\* The SELECT of borrow-book with the two errors sent but no `return` after
\* them: the handler goes on to its INSERT.
BorrowSelectNoReturn(w) ==
    /\ pc[w] = "select"
    /\ Handler(w) = "borrow_book"
    /\ IF "books" \notin schema
       THEN /\ exc' = [exc EXCEPT ![w] = NoSuchTable]
            /\ pc' = [pc EXCEPT ![w] = "close"]
            /\ resp' = resp
       ELSE LET book == SelectIsBorrowed(Db(w), Get(req[w].body, "book_id"))
            IN /\ exc' = exc
               /\ pc' = [pc EXCEPT ![w] = "insert"]
               /\ resp' = IF book = {}
                          THEN [resp EXCEPT ![w] = send_error(404, "Book not found")]
                          ELSE IF \E b \in book : b.is_borrowed # 0
                          THEN [resp EXCEPT ![w] = send_error(404, "Book is already borrowed")]
                          ELSE resp
    /\ UNCHANGED <<schema, store, store0, lock, active, initRuns, initErr, req, conn, log, overlap>>

\* handle_borrow_book: the SELECT and the two early returns, each of which
\* sends its error and calls conn.close() itself.
BorrowSelect(w) ==
    /\ pc[w] = "select"
    /\ Handler(w) = "borrow_book"
    /\ IF "books" \notin schema
       THEN /\ exc' = [exc EXCEPT ![w] = NoSuchTable]
            /\ pc' = [pc EXCEPT ![w] = "close"]
            /\ UNCHANGED <<resp, conn>>
       ELSE LET book == SelectIsBorrowed(Db(w), Get(req[w].body, "book_id"))
            IN /\ exc' = exc
               /\ IF book = {}
                  THEN /\ resp' = [resp EXCEPT ![w] = send_error(404, "Book not found")]
                       /\ conn' = [conn EXCEPT ![w] = Closed]
                       /\ pc' = [pc EXCEPT ![w] = "close"]
                  ELSE IF \E b \in book : b.is_borrowed # 0
                  THEN /\ resp' = [resp EXCEPT ![w] = send_error(404, "Book is already borrowed")]
                       /\ conn' = [conn EXCEPT ![w] = Closed]
                       /\ pc' = [pc EXCEPT ![w] = "close"]
                  ELSE /\ pc' = [pc EXCEPT ![w] = "insert"]
                       /\ UNCHANGED <<resp, conn>>
    /\ UNCHANGED <<schema, store, store0, lock, active, initRuns, initErr, req, log, overlap>>

\* handle_borrow_book: INSERT INTO borrowed_books.
BorrowInsert(w) ==
    /\ pc[w] = "insert"
    /\ Handler(w) = "borrow_book"
    /\ "borrowed_books" \in schema
    /\ LET st == InsertBorrowed(Db(w), conn[w].fk,
                                Get(req[w].body, "borrower_id"), Get(req[w].body, "book_id"))
       IN WriteStep(w, st, "update", resp[w])

\* handle_borrow_book: UPDATE books, then 201 with the borrowing event.
BorrowUpdate(w) ==
    /\ pc[w] = "update"
    /\ LET borrower_id == Get(req[w].body, "borrower_id")
           book_id == Get(req[w].body, "book_id")
           st == [err |-> NoExc, id |-> 0, db |-> UpdateIsBorrowed(Db(w), book_id)]
           event == [borrower_id |-> borrower_id, book_id |-> book_id]
       IN WriteStep(w, st, "close", send_json_response(201, {event}))

\* The UPDATE fails in the store (sqlite3.OperationalError, e.g. an I/O
\* error): the request ends between its two writes.
BorrowUpdateRaises(w) ==
    /\ pc[w] = "update"
    /\ exc' = [exc EXCEPT ![w] = DiskError]
    /\ pc' = [pc EXCEPT ![w] = "close"]
    /\ UNCHANGED <<schema, store, store0, lock, active, initRuns, initErr, req, conn, resp, log, overlap>>

\* Leaving a `with` block whose clean-up is not in a finally: an exception
\* travelling up skips the count-down and the close.
CloseWithoutFinally(w, keep) ==
    /\ pc[w] = "close"
    /\ active' = IF exc[w] = NoExc THEN active - 1 ELSE active
    /\ store' = store
    /\ lock' = IF lock = w THEN NoWorker ELSE lock
    /\ conn' = IF exc[w] = NoExc THEN [conn EXCEPT ![w] = Closed] ELSE conn
    /\ pc' = [pc EXCEPT ![w] = "idle"]
    /\ log' = Logged(keep, req[w], resp[w], exc[w])
    /\ UNCHANGED <<schema, store0, initRuns, initErr, req, resp, exc, overlap>>

\* Leaving the `with` block: the finally of instrumented_connect counts the
\* connection down and closes it; the handler returns or the exception
\* travels up through do_GET / do_POST, whose finally records the metric.
Close(w, keep) ==
    /\ pc[w] = "close"
    /\ active' = active - 1
    /\ store' = ConnClose(store, conn[w], lock = w)
    /\ lock' = IF lock = w THEN NoWorker ELSE lock
    /\ conn' = [conn EXCEPT ![w] = Closed]
    /\ pc' = [pc EXCEPT ![w] = "idle"]
    /\ log' = Logged(keep, req[w], resp[w], exc[w])
    /\ UNCHANGED <<schema, store0, initRuns, initErr, req, resp, exc, overlap>>

\* init_db(db_name): the CREATE statements; DDL is not run inside a
\* transaction by Python's sqlite3, so each takes effect at once and no row
\* is touched.  An sqlite3.Error is caught and printed.
InitDb ==
    /\ initRuns < MaxInitRuns
    /\ LET r == RunInit(schema, 1)
       IN /\ schema' = r.sch
          /\ initErr' = (initErr \/ r.err)
    /\ initRuns' = initRuns + 1
    /\ UNCHANGED <<store, store0, lock, active, pc, req, conn, resp, exc, log, overlap>>

----------------------------------------------------------------------------
(* Requests the model sends.                                               *)

\* Content-Length of a small JSON object.
SmallBody == 40

Slash == <<"/">>

AddBookReq(i) ==
    Post(BOOKS_PATH, SmallBody, "object",
         ("title" :> JStr(Titles[i])) @@ ("author" :> JStr(Authors[i])))
CreateBorrowerReq(n, e) ==
    Post(BORROWERS_PATH, SmallBody, "object",
         ("name" :> JStr(Names[n])) @@ ("email" :> JStr(Emails[e])))
BorrowReq(r, b) ==
    Post(BORROWED_PATH, SmallBody, "object",
         ("borrower_id" :> JInt(r)) @@ ("book_id" :> JInt(b)))
GetBorrowerReq(i) == GetReq(BORROWERS_PATH \o Slash \o <<DigitChars[i + 1]>>)
BorrowedBooksReq(i) == GetReq(BORROWED_PATH \o Slash \o <<DigitChars[i + 1]>>)

ReadRequests ==
    {GetReq(BOOKS_PATH), GetReq(BORROWERS_PATH), GetReq(BORROWED_PATH),
     GetBorrowerReq(1), BorrowedBooksReq(1)}

\* Requests served one after another.
SeqRequests ==
    ReadRequests
    \cup {AddBookReq(1), AddBookReq(2)}
    \cup {CreateBorrowerReq(1, 1), CreateBorrowerReq(2, 1), CreateBorrowerReq(3, 3)}
    \cup {BorrowReq(1, 1), BorrowReq(2, 1), BorrowReq(2, 2), BorrowReq(3, 1)}
    \cup {Post(BOOKS_PATH, SmallBody, "object", "title" :> JStr("T1"))}

\* Requests served by two handler threads at once.
ConcRequests ==
    {GetReq(BOOKS_PATH), AddBookReq(1)}
    \cup {CreateBorrowerReq(3, 1), CreateBorrowerReq(3, 3)}
    \cup {BorrowReq(1, 1), BorrowReq(2, 1), BorrowReq(3, 1)}

\* Requests served around init_db.
InitRequests ==
    {GetReq(BOOKS_PATH), AddBookReq(1), CreateBorrowerReq(3, 3), BorrowReq(1, 1)}

----------------------------------------------------------------------------
(* Requests that exercise routing and body validation.                     *)

\* A key that the body does not carry.
Absent == [t |-> "absent", n |-> 0, s |-> ""]

\* The JSON object with keys a and b, a key left out when its value is Absent.
Body2(a, va, b, vb) ==
    LET fa == IF va = Absent THEN EmptyBody ELSE (a :> va)
        fb == IF vb = Absent THEN EmptyBody ELSE (b :> vb)
    IN fa @@ fb

\* Values Python takes for false, and a missing key.
FalsyVals == {Absent, JNull, JStr(""), JInt(0), JBool(FALSE)}

\* Identifier values: ints, a negative int, an all-digit string, a string
\* that is not all digits, true, and a float (which has no isdigit).
IdVals ==
    FalsyVals \cup {JInt(1), JInt(3), JInt(-1), JDigits(1), JStr("ab"), JBool(TRUE), JFloat(1)}

FieldRequests ==
    {Post(BOOKS_PATH, SmallBody, "object", Body2("title", t, "author", a)) :
        t \in FalsyVals \cup {JStr(Titles[1])}, a \in FalsyVals \cup {JStr(Authors[1])}}
    \cup {Post(BORROWERS_PATH, SmallBody, "object", Body2("name", n, "email", e)) :
        n \in FalsyVals \cup {JStr(Names[3])}, e \in FalsyVals \cup {JStr(Emails[1])}}
    \cup {Post(BORROWED_PATH, SmallBody, "object", Body2("borrower_id", r, "book_id", b)) :
        r \in IdVals, b \in IdVals}

\* Paths no POST route matches: do_POST compares self.path as it was sent.
Nope == <<"/", "n", "o", "p", "e">>
UnknownPostPaths ==
    {Nope, <<"/">>, <<"/", "b", "o", "o", "k">>, BOOKS_PATH \o Slash,
     BOOKS_PATH \o <<"?", "x">>, BORROWED_PATH \o Slash \o <<"1">>}
PostPaths == {BOOKS_PATH, BORROWERS_PATH, BORROWED_PATH} \cup UnknownPostPaths

\* A body with both fields of the endpoint (of /books for an unknown path).
ValidBody(path) ==
    IF path = BORROWERS_PATH THEN Body2("name", JStr(Names[3]), "email", JStr(Emails[3]))
    ELSE IF path = BORROWED_PATH THEN Body2("borrower_id", JInt(1), "book_id", JInt(1))
    ELSE Body2("title", JStr(Titles[1]), "author", JStr(Authors[1]))

\* Content-Length values around the two limits (0: header absent), and what
\* json.loads makes of the bytes read: nothing parses from no byte, one byte
\* is at best a scalar, and an object of two bytes is {}.
ContentLengths == {0, 1, 2, 3, SmallBody, MAX_CONTENT_LENGTH, MAX_CONTENT_LENGTH + 1}
JsonKinds(clen) ==
    IF clen <= 0 THEN {"invalid"}
    ELSE IF clen = 1 THEN {"scalar", "invalid"}
    ELSE {"object", "array", "scalar", "invalid"}

BodyRequests ==
    UNION {{Post(path, clen, json,
                 IF json = "object" /\ clen > 2 THEN ValidBody(path) ELSE EmptyBody) :
              json \in JsonKinds(clen)} :
           path \in PostPaths, clen \in ContentLengths}

\* GET paths: the five routes, identifier segments that are and are not all
\* digits, and paths outside the routes.
Chars(path, tail) == path \o tail
GetPaths ==
    {BOOKS_PATH, BORROWERS_PATH, BORROWED_PATH}
    \cup {Chars(c, Slash \o seg) :
            c \in {BORROWERS_PATH, BORROWED_PATH},
            seg \in {<<>>, <<"1">>, <<"2">>, <<"1", "2">>, <<"0", "1">>, <<"a", "b">>,
                     <<"1", "a">>, <<"-", "1">>, <<"1", ".", "5">>, <<"1", "?", "x">>,
                     <<"a", "?", "1">>, <<"1", ";", "x">>, <<"1", "/", "2">>,
                     <<"a", "/", "2">>, <<"1", "/">>}}
    \cup {Chars(c, tail) :
            c \in {BOOKS_PATH, BORROWERS_PATH, BORROWED_PATH},
            tail \in {<<"x">>, <<"x", "/", "1">>, <<"1">>, <<"?", "x">>}}
    \cup {Chars(BOOKS_PATH, Slash), Chars(BOOKS_PATH, Slash \o <<"1">>),
          Nope, <<"/">>, <<"/", "b", "o", "o", "k">>,
          <<"/", "b", "o", "r", "r", "o", "w">>}

\* Requests with a method the handler class has no do_ method for.
OtherMethods == {"PUT", "DELETE", "PATCH"}
OtherReq(method, path) ==
    [method |-> method, path |-> path, clen |-> SmallBody, json |-> "object",
     body |-> ValidBody(path)]
MethodRequests ==
    {OtherReq(m, p) : m \in OtherMethods, p \in {BOOKS_PATH, BORROWERS_PATH, BORROWED_PATH}}

RouteRequests ==
    ReadRequests \cup FieldRequests \cup BodyRequests \cup {GetReq(p) : p \in GetPaths}
    \cup MethodRequests

----------------------------------------------------------------------------
(* Specifications.                                                         *)

Init ==
    /\ \/ schema = {} /\ store = EmptyDb
       \/ schema = FullSchema /\ store \in InitStores
    /\ store0 = store
    /\ lock = NoWorker
    /\ active = 0
    /\ initRuns = 0
    /\ initErr = FALSE
    /\ pc = [w \in Workers |-> "idle"]
    /\ req = [w \in Workers |-> NoReq]
    /\ conn = [w \in Workers |-> Closed]
    /\ resp = [w \in Workers |-> NoResp]
    /\ exc = [w \in Workers |-> NoExc]
    /\ log = <<>>
    /\ overlap = [w \in Workers |-> FALSE]

\* The steps of the handlers that write, and of list-books, after the
\* request has been received.
Steps(ws, keep) ==
    \/ \E w \in ws : Connect(w)
    \/ \E w \in ws : Pragma(w)
    \/ \E w \in ws : ListBooks(w)
    \/ \E w \in ws : MissingTable(w)
    \/ \E w \in ws : AddBook(w)
    \/ \E w \in ws : CreateBorrower(w)
    \/ \E w \in ws : BorrowSelect(w)
    \/ \E w \in ws : BorrowInsert(w)
    \/ \E w \in ws : BorrowUpdate(w)
    \/ \E w \in ws : BorrowUpdateRaises(w)
    \/ \E w \in ws : Close(w, keep)

\* Requests of a menu arriving, and the steps of their handlers.
Core(ws, menu, keep) ==
    \/ \E w \in ws, r \in menu : Receive(w, r, keep)
    \/ Steps(ws, keep)

\* The steps of the other read-only handlers.
Reads(ws) ==
    \/ \E w \in ws : ListBorrowers(w)
    \/ \E w \in ws : GetBorrower(w)
    \/ \E w \in ws : ListBorrowed(w)
    \/ \E w \in ws : BorrowedBooks(w)

\* HTTPServer handles one request at a time: a single worker, whose
\* exchanges are logged.
Next == Core({"w1"}, SeqRequests, TRUE) \/ Reads({"w1"})
Spec == Init /\ [][Next]_vars

\* Two handler threads on the same store, their steps interleaved, serving
\* the writing requests and list-books.
NextConc == Core(Workers, ConcRequests, FALSE) \/ \E w \in Workers : Busy(w)
SpecConc == Init /\ [][NextConc]_vars

\* The first request a started server receives.
First(w, r) == req[w] = NoReq /\ Receive(w, r, FALSE)

\* One handler: routing and validation read nothing but the request, so each
\* request of the routing menu is sent to a server that has just started;
\* the server then goes on serving read requests.
NextRoute ==
    \/ \E r \in RouteRequests : First("w1", r)
    \/ Core({"w1"}, ReadRequests, FALSE)
    \/ Reads({"w1"})
SpecRoute == Init /\ [][NextRoute]_vars

\* Start-up: init_db on the store file, and requests.
NextInit == InitDb \/ Core({"w1"}, InitRequests, TRUE)
SpecInit == Init /\ [][NextInit]_vars

----------------------------------------------------------------------------
(* Vocabulary of the claims.                                               *)

IsPost(r, path) == r.method = "POST" /\ r.path = path
IsBorrowOf(r, b) == IsPost(r, BORROWED_PATH) /\ Get(r.body, "book_id") = JInt(b)

\* A failure status: an error response was sent.
Failed(rs) == rs.status >= 400

\* The dict a 201 / 200 response carries.
RowOf(rs) == CHOOSE x \in rs.rows : TRUE

RecordsOf(db, b) == {x \in db.borrowed : x.book_id = JInt(b)}
BookIds(db) == {b.id : b \in db.books}

----------------------------------------------------------------------------
(* C1: from a store with one available book and two borrowers, of two      *)
(* concurrent borrow-book requests for that book with different borrowers  *)
(* exactly one is answered 201, the other is answered with a failure       *)
(* status, and the store ends with exactly one record for the book and     *)
(* is_borrowed = true.                                                     *)
C1_BorrowExclusivity ==
    ( /\ Cardinality(store0.books) = 1
      /\ \A b \in store0.books : b.id = 1 /\ b.is_borrowed = 0
      /\ Cardinality(store0.borrowers) = 2
      /\ \A w \in Workers : pc[w] = "idle" /\ overlap[w]
      /\ req["w1"] = BorrowReq(1, 1)
      /\ req["w2"] = BorrowReq(2, 1) )
    => /\ \E w \in Workers :
            /\ resp[w].status = 201
            /\ \A v \in Workers \ {w} : Failed(resp[v])
       /\ Cardinality(RecordsOf(store, 1)) = 1
       /\ \A b \in store.books : b.id = 1 => b.is_borrowed = 1

----------------------------------------------------------------------------
(* C2: once a borrow-book request for a book has been answered 201, every  *)
(* later borrow-book request for the same book is answered with a failure  *)
(* status, never with 201.                                                 *)
C2_BorrowedIsTerminal ==
    \A i \in 1..Len(log), j \in 1..Len(log), b \in 1..(MaxBooks0 + 1) :
        ( /\ i < j
          /\ IsBorrowOf(log[i].req, b) /\ log[i].resp.status = 201
          /\ IsBorrowOf(log[j].req, b) )
        => log[j].resp.status # 201

----------------------------------------------------------------------------
(* C3: after add-book answered 201 with id b and create-borrower answered  *)
(* 201 with id r, borrow-book (r, b) is answered 201, and afterwards the   *)
(* store holds book b with is_borrowed = 1 and a borrowed_books row for b. *)
C3_FullWorkflow ==
    \A i \in 1..Len(log), j \in 1..Len(log), k \in 1..Len(log) :
        ( /\ i < k /\ j < k
          /\ IsPost(log[i].req, BOOKS_PATH) /\ log[i].resp.status = 201
          /\ IsPost(log[j].req, BORROWERS_PATH) /\ log[j].resp.status = 201
          /\ log[k].req = BorrowReq(RowOf(log[j].resp).id, RowOf(log[i].resp).id) )
        => LET b == RowOf(log[i].resp).id
           IN /\ log[k].resp.status = 201
              /\ \E x \in store.books : x.id = b /\ x.is_borrowed = 1
              /\ RecordsOf(store, b) # {}

----------------------------------------------------------------------------
(* C5: after an add-book answered 201, the following list-books returns    *)
(* exactly one more entry than the list-books before it, and that entry    *)
(* has the given title and author, is_borrowed = false and the id that     *)
(* add-book returned.                                                      *)
IsListBooks200(x) ==
    x.req.method = "GET" /\ x.req.path = BOOKS_PATH /\ x.resp.status = 200

C5_AddThenList ==
    \A i \in 1..Len(log) :
        ( /\ i + 2 <= Len(log)
          /\ IsListBooks200(log[i])
          /\ IsPost(log[i + 1].req, BOOKS_PATH) /\ log[i + 1].resp.status = 201
          /\ IsListBooks200(log[i + 2]) )
        => LET before == log[i].resp
               after == log[i + 2].resp
               book == RowOf(log[i + 1].resp)
           IN /\ after.count = before.count + 1
              /\ after.rows \ before.rows =
                    {[id |-> book.id,
                      title |-> Get(log[i + 1].req.body, "title"),
                      author |-> Get(log[i + 1].req.body, "author"),
                      is_borrowed |-> FALSE]}

----------------------------------------------------------------------------
(* C6: the id a successful add-book returns is a positive integer, is not  *)
(* the id of a book already in the store, and no two add-book requests     *)
(* answered 201 return the same id.                                        *)
C6_FreshBookId ==
    \A i \in 1..Len(log) :
        (IsPost(log[i].req, BOOKS_PATH) /\ log[i].resp.status = 201)
        => /\ RowOf(log[i].resp).id > 0
           /\ RowOf(log[i].resp).id \notin BookIds(store0)
           /\ \A j \in 1..Len(log) :
                (j # i /\ IsPost(log[j].req, BOOKS_PATH) /\ log[j].resp.status = 201)
                => RowOf(log[j].resp).id # RowOf(log[i].resp).id

----------------------------------------------------------------------------
(* C7: after create-borrower (name1, e) answered 201 with id r, a later    *)
(* create-borrower with the same email is not answered 201, and a          *)
(* get-borrower(r) after that returns 200 with name1 and e.                *)
IsGetBorrower(r, id) == r = GetBorrowerReq(id)

C7_DuplicateEmail ==
    \A i \in 1..Len(log), j \in 1..Len(log) :
        ( /\ i < j
          /\ IsPost(log[i].req, BORROWERS_PATH) /\ log[i].resp.status = 201
          /\ IsPost(log[j].req, BORROWERS_PATH)
          /\ Get(log[j].req.body, "email") = Get(log[i].req.body, "email") )
        => /\ log[j].resp.status # 201
           /\ \A k \in 1..Len(log) :
                (j < k /\ IsGetBorrower(log[k].req, RowOf(log[i].resp).id))
                => /\ log[k].resp.status = 200
                   /\ log[k].resp.rows =
                        {[id |-> RowOf(log[i].resp).id,
                          name |-> Get(log[i].req.body, "name"),
                          email |-> Get(log[i].req.body, "email")]}

----------------------------------------------------------------------------
(* C4: in every committed state of the store, each book with               *)
(* is_borrowed = true has exactly one borrowed_books row and each book     *)
(* with is_borrowed = false has none, also after requests that fail        *)
(* between the INSERT and the UPDATE of borrow-book.                       *)
C4_BorrowWritesTogether ==
    \A b \in store.books :
        IF b.is_borrowed # 0
        THEN Cardinality(RecordsOf(store, b.id)) = 1
        ELSE RecordsOf(store, b.id) = {}

\* A borrow-book request has ended between its INSERT and its UPDATE, and
\* another has been answered 201.
C4_Witness ==
    \E w \in Workers, v \in Workers :
        /\ pc[w] = "idle" /\ pc[v] = "idle"
        /\ IsPost(req[w], BORROWED_PATH) /\ exc[w] = DiskError
        /\ IsPost(req[v], BORROWED_PATH) /\ resp[v].status = 201

----------------------------------------------------------------------------
(* C8: in every reachable state no two rows of borrowers have the same     *)
(* email, in the committed rows and in the rows any connection sees,       *)
(* whatever create-borrower requests have succeeded or failed.             *)
UniqueEmails(db) == \A a \in db.borrowers, b \in db.borrowers : a.email = b.email => a = b

C8_EmailUnique ==
    /\ UniqueEmails(store)
    /\ \A w \in Workers : conn[w].tx => UniqueEmails(conn[w].view)

\* One create-borrower has failed on an email that was taken, another has
\* been answered 201.
C8_Witness ==
    \E w \in Workers, v \in Workers :
        /\ pc[w] = "idle" /\ pc[v] = "idle"
        /\ IsPost(req[w], BORROWERS_PATH)
        /\ exc[w] = "IntegrityError: UNIQUE constraint failed"
        /\ IsPost(req[v], BORROWERS_PATH) /\ resp[v].status = 201

----------------------------------------------------------------------------
(* C9: init_db on an initialized store raises no error and leaves schema   *)
(* and rows as they were; after any init_db the schema is complete, so     *)
(* init_db; init_db yields the same store as init_db.                      *)
C9_InitIdempotent ==
    [][ initRuns' # initRuns =>
            /\ store' = store
            /\ initErr' = FALSE
            /\ schema' = FullSchema
            /\ (schema = FullSchema => schema' = schema) ]_vars

\* init_db has run twice on a store that holds rows.
C9_Witness ==
    /\ initRuns = 2
    /\ store.books # {} /\ store.borrowers # {} /\ store.borrowed # {}
    /\ schema = FullSchema

----------------------------------------------------------------------------
(* C10: every row of borrowed_books names an existing book and an existing *)
(* borrower, in the committed rows and in the rows any connection sees;    *)
(* every connection has foreign keys enforced when a handler runs a        *)
(* statement on it, and no borrow-book naming a missing book or borrower   *)
(* is answered 201.                                                        *)
RefIntegrity(db) ==
    \A x \in db.borrowed : HasBook(db, x.book_id) /\ HasBorrower(db, x.borrower_id)

C10_ReferentialIntegrity ==
    /\ RefIntegrity(store)
    /\ \A w \in Workers :
        /\ conn[w].tx => RefIntegrity(conn[w].view)
        /\ pc[w] \in {"select", "insert", "update"} => conn[w].fk
        /\ ( /\ pc[w] = "idle"
             /\ IsPost(req[w], BORROWED_PATH)
             /\ ~( /\ HasBook(store0, Get(req[w].body, "book_id"))
                   /\ HasBorrower(store0, Get(req[w].body, "borrower_id")) ) )
           => resp[w].status # 201

\* An INSERT into borrowed_books naming a borrower that does not exist has
\* failed on its foreign key.
C10_Witness ==
    \E w \in Workers :
        /\ pc[w] = "idle"
        /\ IsPost(req[w], BORROWED_PATH)
        /\ exc[w] = "IntegrityError: FOREIGN KEY constraint failed"
        /\ ~HasBorrower(store, Get(req[w].body, "borrower_id"))

----------------------------------------------------------------------------
(* Vocabulary of the claims about errors and routing.                      *)

\* Worker w has finished serving its request.
Served(w) == pc[w] = "idle" /\ req[w] # NoReq

\* The request passed routing, body validation and the handler's argument
\* checks, and the handler opened its connection.
ReachedStore(r) == Dispatch(r).kind = "db"

\* The books row a borrow-book request names, as its SELECT finds it.
BookNamed(db, r) == SelectIsBorrowed(db, Get(r.body, "book_id"))

----------------------------------------------------------------------------
(* C11: when a store statement raises during a request (create-borrower    *)
(* with an email already in the store; borrow-book of an existing          *)
(* available book for a borrower that is not in the store), the request is *)
(* answered with an error status and no exception leaves do_POST.          *)
C11_StoreErrorsAnswered ==
    \A w \in Workers :
        ( /\ Served(w)
          /\ ReachedStore(req[w])
          /\ \/ /\ IsPost(req[w], BORROWERS_PATH)
                /\ EmailTaken(store, Get(req[w].body, "email"))
             \/ /\ IsPost(req[w], BORROWED_PATH)
                /\ \E b \in BookNamed(store, req[w]) : b.is_borrowed = 0
                /\ ~HasBorrower(store, Affinity(Get(req[w].body, "borrower_id"))) )
        => (exc[w] = NoExc /\ Failed(resp[w]))

----------------------------------------------------------------------------
(* C13: a borrow-book request for a book that exists and has               *)
(* is_borrowed = true is answered 400, and no borrowed_books row is        *)
(* inserted.                                                               *)
C13_AlreadyBorrowedIs400 ==
    \A w \in Workers :
        ( /\ Served(w)
          /\ ReachedStore(req[w])
          /\ IsPost(req[w], BORROWED_PATH)
          /\ \E b \in BookNamed(store, req[w]) : b.is_borrowed # 0 )
        => (resp[w].status = 400 /\ store.borrowed = store0.borrowed)

----------------------------------------------------------------------------
(* C14: get-borrower with an all-digit id returns 200 with the borrower    *)
(* {id, name, email} when a borrower with that id is in the store, and is  *)
(* answered 404 when no borrower has that id.                              *)
C14_GetBorrowerStatus ==
    \A w \in Workers :
        ( /\ Served(w)
          /\ req[w].method = "GET"
          /\ StartsWith(req[w].path, BORROWERS_PATH \o Slash)
          /\ IsDigit(PathId(w))
          /\ "borrowers" \in schema )
        => LET found == {b \in store.borrowers : b.id = SegValue(PathId(w))}
           IN IF found # {}
              THEN resp[w].status = 200 /\ resp[w].rows = found
              ELSE resp[w].status = 404

----------------------------------------------------------------------------
(* C12: a POST that is answered with a validation error (400 for invalid   *)
(* JSON, a missing field or a bad identifier shape, or 413) executes no    *)
(* INSERT or UPDATE: its handler never opens a connection, and books,      *)
(* borrowers and borrowed_books are as they were.                          *)

\* The two fields do_POST asks of a body sent to a recognised path.
FieldsOf(path) ==
    IF path = BOOKS_PATH THEN <<"title", "author">>
    ELSE IF path = BORROWERS_PATH THEN <<"name", "email">>
    ELSE <<"borrower_id", "book_id">>

Recognised(path) == path \in {BOOKS_PATH, BORROWERS_PATH, BORROWED_PATH}

\* Python's truth value of a field of the request, read off the JSON value.
Present(r, k) ==
    /\ k \in DOMAIN r.body
    /\ r.body[k] \notin {JNull, JStr(""), JInt(0), JBool(FALSE), JFloat(0)}

\* A str identifier that is not all digits, and a value with no isdigit.
BadShape(v) == v.t = "str"
NoShape(v) == v.t \notin {"int", "bool", "digits", "str"}

\* The request fails one of the validations, read off the request alone.
InvalidPost(r) ==
    /\ r.method = "POST"
    /\ \/ r.clen <= 2
       \/ r.clen > MAX_CONTENT_LENGTH
       \/ r.json # "object"
       \/ /\ Recognised(r.path)
          /\ ~(Present(r, FieldsOf(r.path)[1]) /\ Present(r, FieldsOf(r.path)[2]))
       \/ /\ r.path = BORROWED_PATH
          /\ Present(r, "borrower_id") /\ Present(r, "book_id")
          /\ \/ BadShape(r.body["borrower_id"])
             \/ ~NoShape(r.body["borrower_id"]) /\ BadShape(r.body["book_id"])

C12_ValidationBeforeWrite ==
    \A w \in Workers :
        /\ InvalidPost(req[w]) =>
             /\ pc[w] = "idle"
             /\ resp[w].status \in {400, 413}
             /\ ~conn[w].open
             /\ store = store0
        /\ (req[w].method = "POST" /\ resp[w].status \in {400, 413}) =>
             /\ pc[w] = "idle"
             /\ ~ReachedStore(req[w])
             /\ store = store0

\* A borrow-book with a book_id that is not integer-shaped has been answered
\* 400 on a store that holds books and borrowers.
C12_Witness ==
    \E w \in Workers :
        /\ Served(w)
        /\ IsPost(req[w], BORROWED_PATH)
        /\ req[w].clen > 2 /\ req[w].json = "object"
        /\ BadShape(Get(req[w].body, "book_id"))
        /\ resp[w] = send_error(400, "Invalid book ID format")
        /\ store.books # {} /\ store.borrowers # {}

----------------------------------------------------------------------------
(* C15: a borrow-book request (one that passes validation) whose book_id   *)
(* is not the id of any book in the store is answered 404 "Book not found" *)
(* whatever the borrower_id is, whether that borrower exists or not; it    *)
(* inserts no borrowed_books row and changes no book.                      *)
NoSuchBook(r) == ~HasBook(store, Affinity(Get(r.body, "book_id")))

----------------------------------------------------------------------------
(* C16: for a POST with a JSON-object body to /books (title, author),      *)
(* /borrowers (name, email) or /borrowed-books (borrower_id, book_id)      *)
(* exactly one of four outcomes occurs: both fields truthy -> the          *)
(* endpoint's handler is invoked and do_POST sends no error; only the      *)
(* first falsy or absent -> 400 naming the first field; only the second    *)
(* -> 400 naming the second; both -> 400 "no valid data provided".  Empty  *)
(* string, 0 and false count as absent; the error outcomes invoke no       *)
(* handler.                                                                *)

\* Which of the four outcomes the fields of the body call for.
FieldOutcome(r) ==
    LET a == Present(r, FieldsOf(r.path)[1])
        b == Present(r, FieldsOf(r.path)[2])
    IN IF a /\ b THEN "handler"
       ELSE IF ~a /\ b THEN "first"
       ELSE IF a /\ ~b THEN "second"
       ELSE "none"

\* The message of each error outcome.
FieldMessage(path, outcome) ==
    IF outcome = "none" THEN "Invalid request body, no valid data provided"
    ELSE IF path = BOOKS_PATH
         THEN (IF outcome = "first" THEN "Invalid request body, missing Title"
               ELSE "Invalid request body, missing Author")
    ELSE IF path = BORROWERS_PATH
         THEN (IF outcome = "first" THEN "Invalid request body, missing Name"
               ELSE "Invalid request body, missing Email")
    ELSE (IF outcome = "first" THEN "Invalid request body, missing Borrower ID"
          ELSE "Invalid request body, missing Book ID")

HandlerOf(path) ==
    IF path = BOOKS_PATH THEN "add_book"
    ELSE IF path = BORROWERS_PATH THEN "create_borrower"
    ELSE "borrow_book"

\* do_POST called the handler of the path: the handler went on to the store,
\* raised, or sent one of its own errors.
InHandler(d, path) ==
    \/ d.kind = "db" /\ d.h = HandlerOf(path)
    \/ d.kind = "raise"
    \/ /\ d.kind = "error" /\ d.status = 400 /\ path = BORROWED_PATH
       /\ d.msg \in {"Invalid borrower ID format", "Invalid book ID format"}

\* The outcome of worker w's request is the one its fields call for.
FieldDispatch(w) ==
    LET r == req[w]
        o == FieldOutcome(r)
    IN IF o = "handler"
       THEN InHandler(Dispatch(r), r.path)
       ELSE /\ Dispatch(r) = SendError(400, FieldMessage(r.path, o))
            /\ pc[w] = "idle"
            /\ resp[w] = send_error(400, FieldMessage(r.path, o))

\* The claim as stated, for every JSON-object body.
C16_FieldDispatchAnyObject ==
    \A w \in Workers :
        (req[w].method = "POST" /\ Recognised(req[w].path) /\ req[w].json = "object")
        => FieldDispatch(w)

\* The claim for bodies that pass the length checks: Content-Length above 2
\* and at most MAX_CONTENT_LENGTH.
C16_FieldDispatch ==
    \A w \in Workers :
        ( /\ req[w].method = "POST" /\ Recognised(req[w].path) /\ req[w].json = "object"
          /\ req[w].clen > 2 /\ req[w].clen <= MAX_CONTENT_LENGTH )
        => FieldDispatch(w)

\* A body whose first field is false and whose second is present has been
\* answered with the first field's message.
C16_Witness ==
    \E w \in Workers :
        /\ Served(w)
        /\ IsPost(req[w], BORROWED_PATH)
        /\ req[w].clen > 2 /\ req[w].json = "object"
        /\ Get(req[w].body, "borrower_id") = JBool(FALSE)
        /\ Get(req[w].body, "book_id") = JInt(1)
        /\ resp[w] = send_error(400, "Invalid request body, missing Borrower ID")

----------------------------------------------------------------------------
(* C17: a POST to a recognised path whose Content-Length is absent or at   *)
(* most 2 (including the body {}), whose body is not parseable as JSON, or *)
(* whose body parses to something other than a JSON object, is answered    *)
(* 400 "Invalid JSON format", and no handler is invoked.                   *)
AnsweredInvalidJson(w) ==
    /\ Dispatch(req[w]) = SendError(400, INVALID_JSON_ERROR)
    /\ pc[w] = "idle"
    /\ resp[w] = send_error(400, INVALID_JSON_ERROR)

\* The claim as stated, for a body of any length.
C17_InvalidJsonAnyLength ==
    \A w \in Workers :
        ( /\ req[w].method = "POST" /\ Recognised(req[w].path)
          /\ (req[w].clen <= 2 \/ req[w].json # "object") )
        => AnsweredInvalidJson(w)

\* The claim for a Content-Length of at most MAX_CONTENT_LENGTH.
C17_InvalidJson ==
    \A w \in Workers :
        ( /\ req[w].method = "POST" /\ Recognised(req[w].path)
          /\ req[w].clen <= MAX_CONTENT_LENGTH
          /\ (req[w].clen <= 2 \/ req[w].json # "object") )
        => AnsweredInvalidJson(w)

\* The body {} has been answered, and so has an array of the largest length
\* that is read.
C17_Witness ==
    \E w \in Workers :
        /\ Served(w)
        /\ Recognised(req[w].path)
        /\ \/ req[w].clen = 2 /\ req[w].json = "object"
           \/ req[w].clen = MAX_CONTENT_LENGTH /\ req[w].json = "array"
        /\ resp[w] = send_error(400, INVALID_JSON_ERROR)

----------------------------------------------------------------------------
(* C18: for GET /borrowers/<seg> and GET /borrowed-books/<seg>: when the   *)
(* trailing path segment is not an all-digit token (the empty segment      *)
(* included) the request is answered 400 "Invalid borrower ID format" and  *)
(* neither handle_get_borrower nor handle_borrowed_books is invoked; when  *)
(* it is all digits, the handler of that collection is invoked with that   *)
(* segment.                                                                *)

\* p is <collection>/<seg> with a single segment after the collection name.
IsItemPath(p, collection) ==
    /\ StartsWith(p, collection \o Slash)
    /\ LastSlash(p) = Len(collection) + 1

AllDigits(seg) ==
    /\ seg # <<>>
    /\ \A i \in 1..Len(seg) : seg[i] \in {"0", "1", "2", "3", "4", "5", "6", "7", "8", "9"}

ItemHandler(collection) ==
    IF collection = BORROWERS_PATH THEN "get_borrower" ELSE "borrowed_books"

----------------------------------------------------------------------------
(* C19: every GET whose path is not one of /books, /borrowers,             *)
(* /borrowers/<id>, /borrowed-books, /borrowed-books/<id> (<id> the single *)
(* segment directly after the collection name) is answered 400 "Path not   *)
(* found" and invokes no handler, paths that only begin with the text of a *)
(* collection name and paths with extra segments included.                 *)
IsGetRoute(p) ==
    \/ p \in {BOOKS_PATH, BORROWERS_PATH, BORROWED_PATH}
    \/ IsItemPath(p, BORROWERS_PATH)
    \/ IsItemPath(p, BORROWED_PATH)

AnsweredPathNotFound(w) ==
    /\ Dispatch(req[w]) = SendError(400, PATH_NOT_FOUND_ERROR)
    /\ pc[w] = "idle"
    /\ resp[w] = send_error(400, PATH_NOT_FOUND_ERROR)

C19_UnmatchedGetPath ==
    \A w \in Workers :
        (req[w].method = "GET" /\ ~IsGetRoute(UrlPath(req[w].path)))
        => AnsweredPathNotFound(w)

----------------------------------------------------------------------------
(* C20: every POST whose path is not exactly /books, /borrowers or         *)
(* /borrowed-books is answered 400 "Path not found" and invokes no         *)
(* handler, whatever its body is: routing is decided before body           *)
(* validation.                                                             *)
C20_UnmatchedPostPath ==
    \A w \in Workers :
        (req[w].method = "POST" /\ ~Recognised(req[w].path))
        => AnsweredPathNotFound(w)

----------------------------------------------------------------------------
(* Methods, bodies of responses.                                           *)

\* C21: a request with a method other than GET or POST on /books, /borrowers
\* or /borrowed-books is answered 405 "Method Not Allowed", and the store is
\* not touched.
C21_MethodNotAllowed ==
    \A w \in Workers :
        ( /\ req[w].method \notin {"GET", "POST", "NONE"}
          /\ Recognised(req[w].path)
          /\ pc[w] = "idle" )
        => /\ resp[w].status = 405
           /\ store = store0
           /\ ~conn[w].open

\* C22: every response sent, whatever its status, has a JSON body; an error
\* sent through send_error carries its message inside a JSON body.
C22_JsonBodies ==
    \A w \in Workers :
        resp[w] # NoResp => resp[w].ctype = "application/json"

----------------------------------------------------------------------------
(* Connections are released.                                               *)

\* The workers between the yield of instrumented_connect and its finally.
InWith == {w \in Workers : pc[w] \in {"pragma", "select", "insert", "update", "close"}}

\* C23: every connection a request opens is closed when the request ends, on
\* every exit path; the count of active connections is never negative, counts
\* exactly the connections whose `with` block has not been left, and is back
\* at its value from before the request once the request has ended.
C23_ConnectionsReleased ==
    /\ active >= 0
    /\ active = Cardinality(InWith)
    /\ \A w \in Workers : pc[w] = "idle" => ~conn[w].open
    /\ (\A w \in Workers : pc[w] = "idle") => active = 0

\* Both workers have ended a request that opened a connection, one by an
\* exception raised inside the `with` block, the other by the early return of
\* borrow-book after its 404.
C23_Witness ==
    /\ pc["w1"] = "idle" /\ pc["w2"] = "idle"
    /\ ReachedStore(req["w1"]) /\ exc["w1"] # NoExc
    /\ ReachedStore(req["w2"]) /\ resp["w2"].status = 404
    /\ active = 0

----------------------------------------------------------------------------
(* Identifier shapes of borrow-book.                                       *)

\* C24: borrow-book accepts an identifier only when it is a positive integer
\* (True is the int 1) or an all-digit string; a request with any other truthy
\* identifier is answered 400 "Invalid borrower ID format" or "Invalid book ID
\* format" before any store statement is executed.
C24_IdShape ==
    \A w \in Workers :
        LET r == req[w]
            borrower_id == Get(r.body, "borrower_id")
            book_id == Get(r.body, "book_id")
            Positive(v) == (v.t \in {"int", "bool"} /\ v.n > 0) \/ v.t = "digits"
            message == IF ~Positive(borrower_id) THEN "Invalid borrower ID format"
                       ELSE "Invalid book ID format"
        IN ( /\ IsPost(r, BORROWED_PATH)
             /\ BodyCheck(r) = "ok"
             /\ Truthy(borrower_id) /\ Truthy(book_id)
             /\ ~Positive(borrower_id) \/ ~Positive(book_id) )
           => /\ pc[w] = "idle"
              /\ resp[w] = send_error(400, message)

----------------------------------------------------------------------------
(* The body ceiling.                                                       *)

\* C25: a POST whose Content-Length exceeds 1 MiB (1024 * 1024 bytes) is
\* answered 413 whatever its body and its path are, and no handler is
\* invoked; a POST whose Content-Length is between 3 and 1 MiB inclusive is
\* never answered 413.
C25_BodyCeiling ==
    \A w \in Workers :
        req[w].method = "POST" =>
            /\ req[w].clen > 1024 * 1024 =>
                  /\ pc[w] = "idle"
                  /\ resp[w] = send_error(413, "Request body too large")
                  /\ exc[w] = NoExc
                  /\ ~conn[w].open /\ active = 0
            /\ (req[w].clen >= 3 /\ req[w].clen <= 1024 * 1024) => resp[w].status # 413

\* A POST on /books with a JSON object for a body and a Content-Length one
\* above the ceiling has been answered 413.
C25_Witness ==
    \E w \in Workers :
        /\ IsPost(req[w], BOOKS_PATH)
        /\ req[w].json = "object"
        /\ req[w].clen = 1024 * 1024 + 1
        /\ resp[w].status = 413

----------------------------------------------------------------------------
(* Borrowing records.                                                      *)

\* The borrowing records worker w has inserted in its transaction.
Created(w) == IF conn[w].tx THEN conn[w].view.borrowed \ store0.borrowed ELSE {}

\* C26: every borrowing record created by borrow-book has its borrow_date
\* set (not null) from the moment the row is inserted.
C26_BorrowDateSet ==
    \A w \in Workers :
        \A x \in Created(w) \cup (store.borrowed \ store0.borrowed) :
            x.borrow_date # JNull

----------------------------------------------------------------------------
(* Rows are only added, flags only set.                                    *)

\* The books a step of worker w may mark as borrowed: the book its
\* borrow-book request names, when the step sends the 201.
MayBorrow(w, rs) ==
    IF IsPost(req[w], BORROWED_PATH) /\ rs.status = 201
    THEN {b \in BookIds(Db(w)) : JInt(b) = Affinity(Get(req[w].body, "book_id"))}
    ELSE {}

\* new holds every row of old: no book, borrower or borrowing record is
\* gone, no borrower and no record has changed, a book differs at most in
\* is_borrowed, which has gone from false to true and only for a book of may.
Evolves(old, new, may) ==
    /\ old.borrowers \subseteq new.borrowers
    /\ old.borrowed \subseteq new.borrowed
    /\ \A b \in old.books :
          \/ b \in new.books
          \/ /\ b.is_borrowed = 0
             /\ b.id \in may
             /\ [b EXCEPT !.is_borrowed = 1] \in new.books

\* C27: over any sequence of requests a book's is_borrowed never goes from
\* true to false, goes from false to true only in a borrow-book request for
\* that book that is answered 201, and no request deletes a book, a borrower
\* or a borrowing record or changes a borrower's name or email.  Stated of
\* the committed rows and of the rows each open transaction sees (a
\* transaction that ends without commit leaves the committed rows as they
\* were).
C27_OnlyBorrowMutates ==
    [][ /\ Evolves(store, store', UNION {MayBorrow(w, resp'[w]) : w \in Workers})
        /\ \A w \in Workers :
              conn'[w].tx =>
                Evolves(Db(w), conn'[w].view, MayBorrow(w, resp'[w])) ]_vars

\* A borrow-book request has been answered 201 and its transaction sees the
\* book, available in the committed rows, as borrowed, with the record added.
C27_Witness ==
    \E w \in Workers :
        /\ IsPost(req[w], BORROWED_PATH)
        /\ resp[w].status = 201
        /\ conn[w].tx
        /\ \E b \in store.books :
              /\ b.is_borrowed = 0
              /\ [b EXCEPT !.is_borrowed = 1] \in conn[w].view.books
        /\ conn[w].view.borrowed # store.borrowed

----------------------------------------------------------------------------
(* No handler commits.                                                     *)

----------------------------------------------------------------------------
(* The order of the checks of borrow-book.                                 *)

\* The committed book a borrow-book request names is marked as borrowed.
NamesBorrowedBook(r) ==
    \E b \in store.books :
        JInt(b.id) = Affinity(Get(r.body, "book_id")) /\ b.is_borrowed # 0

ForeignKeyFailed == "IntegrityError: FOREIGN KEY constraint failed"

----------------------------------------------------------------------------
(* One response per request.                                               *)

\* C30: no request is answered twice: once send_json_response or send_error
\* has been called for a request, no later step of that request sends
\* another response, and none executes a further store statement; all that
\* is left is to leave the `with` block.
C30_AnsweredOnce ==
    [][ \A w \in Workers :
          (pc[w] # "idle" /\ resp[w] # NoResp) =>
              /\ pc[w] = "close"
              /\ pc'[w] = "idle"
              /\ resp'[w] = resp[w]
              /\ req'[w] = req[w]
              /\ ~conn'[w].tx ]_vars

\* borrow-book has sent an error from inside its `with` block and has not
\* yet left it.
C30_Witness ==
    \E w \in Workers :
        /\ pc[w] = "close"
        /\ IsPost(req[w], BORROWED_PATH)
        /\ Failed(resp[w])
        /\ exc[w] = NoExc

====
